---- MODULE Spec2Model ----
(***************************************************************************)
(* State-machine model of the Supabase logger: the credential manager      *)
(* (SupabaseClient, src/supabase_client.py) and the log submitter          *)
(* (SupabaseLogger, src/supabase_logger.py).                               *)
(*                                                                         *)
(* A thread runs straight-line Python between two blocking points, so an   *)
(* action is the code from one requests.post (or the start of a call) up   *)
(* to the next requests.post (or the return of the call).  A network call  *)
(* is an invocation of requests.post; its outcome and the time it takes    *)
(* are chosen by the environment.                                          *)
(***************************************************************************)
EXTENDS Integers, Sequences, FiniteSets, TLC

VARIABLES
    instance,     \* SupabaseLogger._instance: None, or the object (objects are numbered)
    initialized,  \* SupabaseLogger._instance._initialized
    cfg,          \* url, api_key, auth_email, auth_password, environment
    enabled,      \* self.enabled
    cred,         \* access_token, refresh_token, expires_at
    now,          \* int(datetime.now(timezone.utc).timestamp())
    issued,       \* number of token bodies the backend has produced so far
    committed,    \* the credential state as the last response that an operation
                  \* accepted (it did not raise) left it
    th,           \* per thread: where it is blocked, its locals, how its call ended
    prev,         \* per thread: what the call before the current one returned
    logger        \* per thread: the object its last SupabaseLogger(...) returned

vars ==
    <<instance, initialized, cfg, enabled, cred, now, issued, committed, th, prev, logger>>

----------------------------------------------------------------------------
(* Bounds of the model *)

\* the clock is followed for MaxSeconds seconds from its start, and for as many
\* from one token lifetime later
MaxSeconds == 2
\* token bodies the backend produces in one run
MaxIssued == 3

(* Program constants *)

\* data.get("expires_in", 3600)
DefaultExpiresIn == 3600

\* Python's None; like None it is falsy, and no token, time or setting equals it
None == 0

Threads == {1, 2}
\* the single caller of the sequential specification
Callers == {1}

\* a constructor argument is omitted or given; an environment variable is unset or set
ArgValues == {None, 1}
EnvValues == {None, 1}
\* the settings SupabaseClient.__init__ stores
Settings == {"url", "api_key", "auth_email", "auth_password", "environment"}
\* the arguments of SupabaseLogger(...): all five given, all but one, or none
ConstructorArgs ==
    {a \in [Settings -> ArgValues] :
        \/ \A k \in Settings : a[k] = None
        \/ \E k \in Settings : \A j \in Settings \ {k} : a[j] # None}
\* the process environment: none of the variables is set, or all of them are
Environments == {[k \in Settings |-> v] : v \in EnvValues}
\* the clock at start (seconds since the epoch, positive)
StartTime == 1
\* the expires_in a token body carries, when it carries one
ExpiresInValues == {1, DefaultExpiresIn}
\* how far the clock moves in one step: a second, or a token's lifetime
TickSteps == {1, DefaultExpiresIn}
\* the instants the clock can read
Instants ==
    {StartTime + h * DefaultExpiresIn + u : h \in {0, 1}, u \in 0..MaxSeconds}

\* outcomes of a request to /auth/v1/token
TokenOutcomes ==
    {"transport",         \* requests.post raises (connection error, timeout)
     "http_error",        \* non-2xx: raise_for_status raises
     "no_access_token",   \* 2xx, the body is no JSON object with "access_token"
     "no_refresh_token",  \* 2xx, JSON object with "access_token", without "refresh_token"
     "bad_expires_in",    \* 2xx, both tokens, "expires_in" is not a number
     "null_refresh_token",\* 2xx, well-formed body whose "refresh_token" is null
     "ok"}                \* 2xx, well-formed body
\* outcomes that carry a fresh access token
IssuingOutcomes == {"no_refresh_token", "bad_expires_in", "null_refresh_token", "ok"}
\* outcomes that carry an expires_in, or a body without one
TimedOutcomes == {"null_refresh_token", "ok"}
\* outcomes of a request to /rest/v1/ai_bot_logs
InsertOutcomes ==
    {"transport",   \* requests.post raises, the backend has stored nothing
     "lost",        \* the backend stored the row; requests.post raises (the
                    \* response is lost, or the 30-second timeout expires first)
     "http_error",  \* non-2xx: raise_for_status raises, nothing is stored
     "ok"}          \* 2xx: the backend stored the row
\* outcomes after which the backend holds one more row
StoringOutcomes == {"lost", "ok"}

\* Python values of the optional log_success arguments (Optional[Dict],
\* Optional[int]): None, a dict of n keys, the int n
Absent == [type |-> "NoneType", n |-> 0]
EmptyDict == [type |-> "dict", n |-> 0]
Zero == [type |-> "int", n |-> 0]
AttachmentValues ==
    {Absent, EmptyDict, [type |-> "dict", n |-> 1], [type |-> "dict", n |-> 2]}
LengthValues == {Absent, Zero, [type |-> "int", n |-> 1], [type |-> "int", n |-> 2]}
\* the optional arguments of a log_success call
LogArgs ==
    [input_attachments : AttachmentValues, chat_history_length : LengthValues,
     output_attachments : AttachmentValues]
\* log_success called without the optional arguments
NoArgs ==
    [input_attachments |-> Absent, chat_history_length |-> Absent,
     output_attachments |-> Absent]
\* the calls of the logger's caller: without the optional arguments, or with
\* attachments and a chat history
CallerArgs ==
    {NoArgs,
     [input_attachments |-> [type |-> "dict", n |-> 2],
      chat_history_length |-> [type |-> "int", n |-> 2],
      output_attachments |-> [type |-> "dict", n |-> 1]]}

----------------------------------------------------------------------------
(* Helpers *)

\* Python's `a or b`
Or(a, b) == IF a # None THEN a ELSE b

\* Python's truth value of an optional argument: None, 0 and the empty dict are
\* false
Truthy(v) == v.n # 0

\* no log record: a thread outside log_success holds none
NoRecord ==
    [created_at |-> None, input_attachments |-> Absent, chat_history_length |-> Absent,
     output_attachments |-> Absent, environment |-> None]

NoCred == [access_token |-> None, refresh_token |-> None, expires_at |-> None]

\* all four required settings have a value
Configured(c) ==
    c.url # None /\ c.api_key # None /\ c.auth_email # None /\ c.auth_password # None

\* what a request is sent on: the facts about credential state c at time n
Facts(c, n) ==
    [token |-> c.access_token,
     access |-> c.access_token # None,
     refresh |-> c.refresh_token # None,
     expiry |-> c.expires_at # None,
     passed |-> c.expires_at # None /\ n >= c.expires_at]

\* no request has been sent, none has been answered
NoRequest == [kind |-> "none", first |-> FALSE, seen |-> Facts(NoCred, None)]
NoAnswer ==
    [kind |-> "none", first |-> FALSE, out |-> "none", raised |-> FALSE,
     unchanged |-> TRUE]

\* no response body is being stored
NoData == [out |-> "none", expires_in |-> None, id |-> None, expires_at |-> None]

\* a thread that is in no call.  Of a call the record keeps, besides the program's
\* own locals (token; of log_success its optional arguments args, the record
\* log_entry it assembled and the body json of its insert request; the response
\* body data that _authenticate or _refresh_token is storing), what the properties are stated on: whether the call started
\* within the lifetime of the token the previous call returned (within), the
\* requests issued so far (reqs), the last request sent (last), the last operation
\* that a response ended (answered), how the call ended (status, val), of a
\* log_success call the access token that was cached when its first attempt failed
\* (stale) and the number of rows the backend has stored for it (stored)
IdleThread ==
    [pc |-> "idle", op |-> "none", attempt |-> 0, token |-> None, within |-> FALSE,
     reqs |-> <<>>, last |-> NoRequest, answered |-> NoAnswer,
     status |-> "none", val |-> None,
     args |-> NoArgs, log_entry |-> NoRecord, json |-> NoRecord, data |-> NoData,
     stale |-> None, stored |-> 0]

\* the previous call was no _get_valid_token call that found no access token
\* cached and returned one
NoPrev == [token |-> None, expires_at |-> None, reqs |-> <<>>]

\* requests.post(...): the request goes out and the thread blocks on it.  `last`
\* keeps whether it is the first request of a _get_valid_token call and the facts
\* about the time and the credential state it was sent in.
Send(s, kind, first, tok, c, n) ==
    [s EXCEPT !.pc = kind,
              !.token = tok,
              !.reqs = Append(@, [kind |-> kind, attempt |-> s.attempt]),
              !.last = [kind |-> kind, first |-> first, seen |-> Facts(c, n)]]

\* the blocked operation of thread record s has ended: with outcome out, raising or
\* not, having found the credential state as pre and left it as post
Answered(s, out, raised, pre, post) ==
    [s EXCEPT !.answered = [kind |-> s.last.kind, first |-> s.last.first, out |-> out,
                            raised |-> raised, unchanged |-> (post = pre)]]

\* a call still running: thread record s, credential state c
Running(s, c) == [th |-> s, cred |-> c]
\* a call that has ended: it returned val (status "ok") or raised (status "raised")
Ended(s, c, status, val) ==
    [th |-> [s EXCEPT !.pc = "done", !.status = status, !.val = val], cred |-> c]

----------------------------------------------------------------------------
(* SupabaseClient *)

\* the credential state a 2xx response with a JSON object as its body leaves, by
\* the three assignments from `data`: a missing key raises before its assignment
store_response(c, out, e, id, n) ==
    CASE out = "no_refresh_token" ->
            [cred |-> [c EXCEPT !.access_token = id], raised |-> TRUE]
      [] out = "bad_expires_in" ->
            [cred |-> [c EXCEPT !.access_token = id, !.refresh_token = id],
             raised |-> TRUE]
      [] out = "null_refresh_token" ->
            [cred |-> [access_token |-> id, refresh_token |-> None,
                       expires_at |-> n + (IF e = None THEN DefaultExpiresIn ELSE e)],
             raised |-> FALSE]
      [] out = "ok" ->
            [cred |-> [access_token |-> id, refresh_token |-> id,
                       expires_at |-> n + (IF e = None THEN DefaultExpiresIn ELSE e)],
             raised |-> FALSE]

\* C10's mutant: a rejected password grant drops the cached credentials
authenticate_clearing(c, out, e, id, n) ==
    IF out \in {"transport", "http_error", "no_access_token"}
    THEN [cred |-> NoCred, raised |-> TRUE]
    ELSE store_response(c, out, e, id, n)

\* _authenticate, from the response on: what the response with outcome out (a well-
\* formed body carrying expires_in e, None when it carries none; id the token pair
\* of the body) makes of the credential state c at time n
_authenticate(c, out, e, id, n) ==
    IF out \in {"transport", "http_error", "no_access_token"}
    THEN [cred |-> c, raised |-> TRUE]
    ELSE store_response(c, out, e, id, n)

\* _refresh_token, from the response on
_refresh_token(c, out, e, id, n) ==
    IF out \in {"transport", "http_error", "no_access_token"}
    THEN [cred |-> c, raised |-> TRUE]
    ELSE store_response(c, out, e, id, n)

\* C20's mutant: the token still counts as valid at the instant it expires
token_expired_strict(c, n) == c.expires_at # None /\ n > c.expires_at

\* C6's mutant: a token with an expiry time always counts as expired
token_expired_always(c, n) == c.expires_at # None

\* `self.expires_at and current_time >= self.expires_at`
token_expired(c, n) == c.expires_at # None /\ n >= c.expires_at

\* C14's mutant: the record is stamped anew when it is sent
get_valid_token_return_restamping(s, c, n) ==
    IF s.op = "log_success"
    THEN Running([Send(s, "insert", FALSE, c.access_token, c, n)
                      EXCEPT !.json = [s.log_entry EXCEPT !.created_at = n]], c)
    ELSE Ended(s, c, "ok", c.access_token)

\* C15's mutant: _insert_log sends the token it held before the authentication
get_valid_token_return_stale(s, c, n) ==
    IF s.op = "log_success"
    THEN Running([Send(s, "insert", FALSE, s.token, c, n)
                      EXCEPT !.json = s.log_entry], c)
    ELSE Ended(s, c, "ok", c.access_token)

\* `return self.access_token` of _get_valid_token, and what its caller does next:
\* _insert_log posts the record with the token, get_headers and a direct caller
\* return
get_valid_token_return(s, c, n) ==
    IF s.op = "log_success"
    THEN Running([Send(s, "insert", FALSE, c.access_token, c, n)
                      EXCEPT !.json = s.log_entry], c)
    ELSE Ended(s, c, "ok", c.access_token)

\* C7's mutant: an expired token is never refreshed, always re-authenticated
get_valid_token_no_refresh(s, c, n) ==
    IF c.access_token = None \/ token_expired(c, n)
    THEN Running(Send(s, "auth", TRUE, None, c, n), c)
    ELSE get_valid_token_return(s, c, n)

\* C21's mutant: without an access token a cached refresh token is used first
get_valid_token_refresh_first(s, c, n) ==
    IF c.access_token = None /\ c.refresh_token # None
    THEN Running(Send(s, "refresh", TRUE, c.refresh_token, c, n), c)
    ELSE IF c.access_token = None
    THEN Running(Send(s, "auth", TRUE, None, c, n), c)
    ELSE IF token_expired(c, n) /\ c.refresh_token # None
    THEN Running(Send(s, "refresh", TRUE, c.refresh_token, c, n), c)
    ELSE IF token_expired(c, n)
    THEN Running(Send(s, "auth", TRUE, None, c, n), c)
    ELSE get_valid_token_return(s, c, n)

\* _get_valid_token, up to its first request or, without one, to its return
_get_valid_token(s, c, n) ==
    IF c.access_token = None
    THEN Running(Send(s, "auth", TRUE, None, c, n), c)
    ELSE IF token_expired(c, n) /\ c.refresh_token # None
    THEN Running(Send(s, "refresh", TRUE, c.refresh_token, c, n), c)
    ELSE IF token_expired(c, n)
    THEN Running(Send(s, "auth", TRUE, None, c, n), c)
    ELSE get_valid_token_return(s, c, n)

----------------------------------------------------------------------------
(* SupabaseLogger *)

\* C3's mutant: logging is enabled whatever is missing
init_enabled_always(c) == TRUE

\* self.enabled as __init__ sets it: no required parameter is missing
init_enabled(c) == Configured(c)

\* `argument or default`
or_default(v, d) == IF Truthy(v) THEN v ELSE d

\* C19's mutant: output_attachments is stored as passed
log_entry_null_output(a, g, n) ==
    [created_at |-> n,
     input_attachments |-> or_default(a.input_attachments, EmptyDict),
     chat_history_length |-> or_default(a.chat_history_length, Zero),
     output_attachments |-> a.output_attachments,
     environment |-> g.environment]

\* the record log_success assembles from its optional arguments a, on a logger
\* configured as g, at time n (the other fields are the required arguments as
\* passed)
log_entry(a, g, n) ==
    [created_at |-> n,
     input_attachments |-> or_default(a.input_attachments, EmptyDict),
     chat_history_length |-> or_default(a.chat_history_length, Zero),
     output_attachments |-> or_default(a.output_attachments, EmptyDict),
     environment |-> g.environment]

\* C17's mutant: every construction makes a new object
new_always(inst, initd) == [instance |-> inst + 1, initialized |-> FALSE]

\* __new__: the object SupabaseLogger(...) yields, and its _initialized flag, when
\* _instance is inst and inst._initialized is initd
__new__(inst, initd) ==
    IF inst = None
    THEN [instance |-> 1, initialized |-> FALSE]
    ELSE [instance |-> inst, initialized |-> initd]

\* C18's mutant: __init__ initialises on every construction
init_again(initd, a, e, cur) ==
    LET c == [k \in Settings |-> Or(a[k], e[k])]
    IN [cfg |-> c, enabled |-> init_enabled(c), cred |-> NoCred]

\* __init__ on an object whose _initialized flag is initd, with arguments a and
\* environment variables e: the configuration, the enabled flag and the credential
\* state it leaves, cur being what it found
__init__(initd, a, e, cur) ==
    IF initd
    THEN cur
    ELSE LET c == [k \in Settings |-> Or(a[k], e[k])]
         IN [cfg |-> c, enabled |-> init_enabled(c), cred |-> NoCred]

\* C13's mutant: the retry is retried once more
log_success_except_thrice(s, c, n) ==
    IF s.attempt \in {1, 2}
    THEN _get_valid_token([s EXCEPT !.attempt = @ + 1, !.stale = c.access_token],
                          [c EXCEPT !.access_token = None], n)
    ELSE Ended(s, c, "ok", None)

\* C1's mutant: the second failure is not caught
log_success_except_reraise(s, c, n) ==
    IF s.attempt = 1
    THEN _get_valid_token([s EXCEPT !.attempt = 2, !.stale = c.access_token],
                          [c EXCEPT !.access_token = None], n)
    ELSE Ended(s, c, "raised", None)

\* C2's mutant: the retry keeps the cached access token
log_success_except_keeping(s, c, n) ==
    IF s.attempt = 1
    THEN _get_valid_token([s EXCEPT !.attempt = 2, !.stale = c.access_token], c, n)
    ELSE Ended(s, c, "ok", None)

\* C27's mutant: the retry forgets the expiry time and keeps the access token
log_success_except_expiry(s, c, n) ==
    IF s.attempt = 1
    THEN _get_valid_token([s EXCEPT !.attempt = 2, !.stale = c.access_token],
                          [c EXCEPT !.expires_at = None], n)
    ELSE Ended(s, c, "ok", None)

\* C28's mutant: the first failure ends the call, nothing is retried
log_success_except_once(s, c, n) == Ended(s, c, "ok", None)

\* the except clauses of log_success: after the first failure clear the access
\* token and run _insert_log again, after the second give up and return
log_success_except(s, c, n) ==
    IF s.attempt = 1
    THEN _get_valid_token([s EXCEPT !.attempt = 2, !.stale = c.access_token],
                          [c EXCEPT !.access_token = None], n)
    ELSE Ended(s, c, "ok", None)

\* C23's mutant: only a failed insert request is retried
raise_insert_only(s, c, n) ==
    IF s.op = "log_success" /\ s.last.kind = "insert"
    THEN log_success_except(s, c, n)
    ELSE IF s.op = "log_success"
    THEN Ended(s, c, "ok", None)
    ELSE Ended(s, c, "raised", None)

\* an exception leaves _get_valid_token or _insert_log
Raise(s, c, n) ==
    IF s.op = "log_success"
    THEN log_success_except(s, c, n)
    ELSE Ended(s, c, "raised", None)

\* C8's mutant: the refresh failure propagates
get_valid_token_except_propagating(s, c, n) == Raise(s, c, n)

\* the except clause of _get_valid_token around _refresh_token: the failure is
\* logged and dropped, full authentication follows
get_valid_token_except(s, c, n) ==
    Running(Send(s, "auth", FALSE, None, c, n), c)

----------------------------------------------------------------------------
(* Actions *)

\* the state after thread t's step has taken its call to k
Apply(t, k) ==
    /\ cred' = k.cred
    /\ th' = [th EXCEPT ![t] = k.th]

\* thread record of a call of op that starts now
Starting(t, op, attempt) ==
    [IdleThread EXCEPT !.op = op, !.attempt = attempt,
                       !.within = (prev[t].token # None /\ now < prev[t].expires_at)]

\* SupabaseLogger(url, api_key, auth_email, auth_password, environment) with the
\* arguments a, the environment variables e: __new__, then __init__ on the object
\* it returned; the caller gets that object
Construct(t) ==
    /\ th[t].pc = "idle"
    /\ \E a \in ConstructorArgs, e \in Environments :
          LET o == __new__(instance, initialized)
              pre == [cfg |-> cfg, enabled |-> enabled, cred |-> cred]
              post == __init__(o.initialized, a, e, pre)
          IN /\ instance' = o.instance
             /\ initialized' = TRUE
             /\ cfg' = post.cfg
             /\ enabled' = post.enabled
             /\ cred' = post.cred
             /\ committed' = IF post.cred = cred THEN committed ELSE post.cred
             /\ th' = [th EXCEPT ![t] =
                         [Starting(t, "construct", 0) EXCEPT
                             !.pc = "done", !.status = "ok", !.val = o.instance,
                             !.answered = [kind |-> "construct",
                                           first |-> ~o.initialized,
                                           out |-> "none", raised |-> FALSE,
                                           unchanged |-> (post = pre)]]]
    /\ UNCHANGED <<now, issued, prev, logger>>

\* the caller of thread t has its result and goes on
Return(t) ==
    /\ th[t].pc = "done"
    /\ th' = [th EXCEPT ![t] = IdleThread]
    /\ prev' = [prev EXCEPT ![t] =
                  IF /\ th[t].op = "get_valid_token"
                     /\ th[t].status = "ok"
                     /\ th[t].reqs # <<>>
                     /\ ~th[t].last.seen.access
                  THEN [token |-> th[t].val, expires_at |-> cred.expires_at,
                        reqs |-> th[t].reqs]
                  ELSE NoPrev]
    /\ logger' = [logger EXCEPT ![t] = IF th[t].op = "construct" THEN th[t].val ELSE @]
    /\ UNCHANGED <<instance, initialized, cfg, enabled, cred, now, issued, committed>>

\* C16's mutant: log_success checks the url only
log_success_call_enabled(t, a) ==
    /\ logger[t] # None
    /\ th[t].pc = "idle"
    /\ LET s == [Starting(t, "log_success", 0)
                    EXCEPT !.args = a, !.log_entry = log_entry(a, cfg, now)]
       IN Apply(t, IF cfg.url = None
                   THEN Ended(s, cred, "ok", None)
                   ELSE _get_valid_token([s EXCEPT !.attempt = 1], cred, now))
    /\ UNCHANGED <<instance, initialized, cfg, enabled, now, issued, committed, prev, logger>>

\* logger.log_success(...) with the optional arguments a: up to the first request,
\* or to the return without one
log_success_call(t, a) ==
    /\ logger[t] # None
    /\ th[t].pc = "idle"
    /\ LET s == [Starting(t, "log_success", 0)
                    EXCEPT !.args = a, !.log_entry = log_entry(a, cfg, now)]
       IN Apply(t, IF cfg.url = None \/ ~enabled
                   THEN Ended(s, cred, "ok", None)
                   ELSE _get_valid_token([s EXCEPT !.attempt = 1], cred, now))
    /\ UNCHANGED <<instance, initialized, cfg, enabled, now, issued, committed, prev, logger>>

\* a log_success call of the logger's caller
log_success(t) == \E a \in CallerArgs : log_success_call(t, a)

\* client.get_headers(): up to the first request, or to the return without one
get_headers(t) ==
    /\ logger[t] # None
    /\ th[t].pc = "idle"
    /\ Apply(t, _get_valid_token(Starting(t, "get_headers", 0), cred, now))
    /\ UNCHANGED <<instance, initialized, cfg, enabled, now, issued, committed, prev, logger>>

\* client._get_valid_token() called directly, as the tests do
get_valid_token(t) ==
    /\ logger[t] # None
    /\ th[t].pc = "idle"
    /\ Apply(t, _get_valid_token(Starting(t, "get_valid_token", 0), cred, now))
    /\ UNCHANGED <<instance, initialized, cfg, enabled, now, issued, committed, prev, logger>>

\* the password-grant request of thread t ends, with one of the outcomes outs and,
\* in a well-formed body, one of the expires_in es
AuthAnswered(t, outs, es) ==
    /\ th[t].pc = "auth"
    /\ \E out \in outs, e \in es :
          /\ out \in IssuingOutcomes => issued < MaxIssued
          /\ out \notin TimedOutcomes => e = None
          /\ LET r == _authenticate(cred, out, e, issued + 1, now)
                 s == Answered(th[t], out, r.raised, cred, r.cred)
             IN /\ Apply(t, IF r.raised THEN Raise(s, r.cred, now)
                            ELSE get_valid_token_return(s, r.cred, now))
                /\ committed' = IF r.raised THEN committed ELSE r.cred
          /\ issued' = IF out \in IssuingOutcomes THEN issued + 1 ELSE issued
    /\ UNCHANGED <<instance, initialized, cfg, enabled, now, prev, logger>>

\* the password-grant request of thread t ends
AuthResponse(t) == AuthAnswered(t, TokenOutcomes, ExpiresInValues \cup {None})

\* the refresh-grant request of thread t ends, with one of the outcomes outs and,
\* in a well-formed body, one of the expires_in es
RefreshAnswered(t, outs, es) ==
    /\ th[t].pc = "refresh"
    /\ \E out \in outs, e \in es :
          /\ out \in IssuingOutcomes => issued < MaxIssued
          /\ out \notin TimedOutcomes => e = None
          /\ LET r == _refresh_token(cred, out, e, issued + 1, now)
                 s == Answered(th[t], out, r.raised, cred, r.cred)
             IN /\ Apply(t, IF r.raised THEN get_valid_token_except(s, r.cred, now)
                            ELSE get_valid_token_return(s, r.cred, now))
                /\ committed' = IF r.raised THEN committed ELSE r.cred
          /\ issued' = IF out \in IssuingOutcomes THEN issued + 1 ELSE issued
    /\ UNCHANGED <<instance, initialized, cfg, enabled, now, prev, logger>>

\* the refresh-grant request of thread t ends
RefreshResponse(t) == RefreshAnswered(t, TokenOutcomes, ExpiresInValues \cup {None})

\* the insert request of thread t ends, with one of the outcomes outs
InsertAnswered(t, outs) ==
    /\ th[t].pc = "insert"
    /\ \E out \in outs :
          LET s == [Answered(th[t], out, out # "ok", cred, cred)
                       EXCEPT !.stored = IF out \in StoringOutcomes THEN @ + 1 ELSE @]
          IN Apply(t, IF out # "ok" THEN Raise(s, cred, now)
                      ELSE Ended(s, cred, "ok", None))
    /\ UNCHANGED <<instance, initialized, cfg, enabled, now, issued, committed, prev, logger>>

\* the insert request of thread t ends
InsertResponse(t) == InsertAnswered(t, InsertOutcomes)

\* time passes: between calls, and by seconds while a request is out (every request
\* has timeout=30); a result is looked at the instant the call returns
Tick ==
    /\ \A t \in Threads : th[t].pc # "done"
    /\ \E d \in TickSteps :
          /\ d # 1 => \A t \in Threads : th[t].pc = "idle"
          /\ now + d \in Instants
          /\ now' = now + d
    /\ UNCHANGED <<instance, initialized, cfg, enabled, cred, issued, committed, th, prev, logger>>

Init ==
    /\ instance = None
    /\ initialized = FALSE
    /\ cfg = [url |-> None, api_key |-> None, auth_email |-> None,
              auth_password |-> None, environment |-> None]
    /\ enabled = FALSE
    /\ cred = NoCred
    /\ now = StartTime
    /\ issued = 0
    /\ committed = NoCred
    /\ th = [t \in Threads |-> IdleThread]
    /\ prev = [t \in Threads |-> NoPrev]
    /\ logger = [t \in Threads |-> None]

\* one caller
Next ==
    \/ \E t \in Callers : Construct(t)
    \/ \E t \in Callers : log_success(t)
    \/ \E t \in Callers : get_headers(t)
    \/ \E t \in Callers : get_valid_token(t)
    \/ \E t \in Callers : AuthResponse(t)
    \/ \E t \in Callers : RefreshResponse(t)
    \/ \E t \in Callers : InsertResponse(t)
    \/ \E t \in Callers : Return(t)
    \/ Tick

Spec == Init /\ [][Next]_vars

----------------------------------------------------------------------------
(* Several threads on one logger.  Nothing in the code locks the credential state,
   so a thread can be preempted between any two statements: the three assignments
   of _authenticate and _refresh_token, and the `return self.access_token` that
   follows them, are steps of their own.  The threads' calls are followed within
   one second of the clock. *)

\* the credential state that storing the whole of response body d amounts to
Stored(d) ==
    [access_token |-> d.id,
     refresh_token |-> IF d.out = "null_refresh_token" THEN None ELSE d.id,
     expires_at |-> d.expires_at]

\* what follows a failure of the grant request that thread record s last sent:
\* the except clause around _refresh_token, or the exception leaving
\* _get_valid_token
Failed(s, c, n) ==
    LET z == [s EXCEPT !.data = NoData]
    IN IF s.last.kind = "refresh" THEN get_valid_token_except(z, c, n) ELSE Raise(z, c, n)

\* the response to thread t's grant request (kind "auth" or "refresh") arrives,
\* with one of the outcomes outs and, in a well-formed body, one of the expires_in
\* es: raise_for_status, response.json(), data["access_token"] evaluated
ReceivedFrom(t, kind, outs, es) ==
    /\ th[t].pc = kind
    /\ \E out \in outs, e \in es :
          /\ out \in IssuingOutcomes => issued < MaxIssued
          /\ out \notin TimedOutcomes => e = None
          /\ IF out \in IssuingOutcomes
             THEN /\ th' = [th EXCEPT ![t] =
                              [@ EXCEPT !.pc = "store_access",
                                        !.data = [out |-> out, expires_in |-> e,
                                                  id |-> issued + 1,
                                                  expires_at |-> None]]]
                  /\ cred' = cred
                  /\ issued' = issued + 1
             ELSE /\ Apply(t, Failed(Answered(th[t], out, TRUE, cred, cred), cred, now))
                  /\ issued' = issued
    /\ UNCHANGED <<instance, initialized, cfg, enabled, now, committed, prev, logger>>

\* the response to thread t's grant request arrives
Received(t, kind) == ReceivedFrom(t, kind, TokenOutcomes, ExpiresInValues \cup {None})

AuthReceived(t) == Received(t, "auth")
RefreshReceived(t) == Received(t, "refresh")

\* self.access_token = data["access_token"]; data["refresh_token"] evaluated
StoreAccess(t) ==
    /\ th[t].pc = "store_access"
    /\ LET d == th[t].data
           c == [cred EXCEPT !.access_token = d.id]
       IN Apply(t, IF d.out = "no_refresh_token"
                   THEN Failed(Answered(th[t], d.out, TRUE, cred, c), c, now)
                   ELSE Running([th[t] EXCEPT !.pc = "store_refresh"], c))
    /\ UNCHANGED <<instance, initialized, cfg, enabled, now, issued, committed, prev, logger>>

\* self.refresh_token = data["refresh_token"]; the new expires_at evaluated
StoreRefresh(t) ==
    /\ th[t].pc = "store_refresh"
    /\ LET d == th[t].data
           c == [cred EXCEPT !.refresh_token =
                                IF d.out = "null_refresh_token" THEN None ELSE d.id]
       IN Apply(t, IF d.out = "bad_expires_in"
                   THEN Failed(Answered(th[t], d.out, TRUE, cred, c), c, now)
                   ELSE Running([th[t] EXCEPT !.pc = "store_expiry"], c))
    /\ UNCHANGED <<instance, initialized, cfg, enabled, now, issued, committed, prev, logger>>

\* self.expires_at = int(datetime.now(timezone.utc).timestamp()) + expires_in:
\* _authenticate or _refresh_token has stored the whole response
StoreExpiry(t) ==
    /\ th[t].pc = "store_expiry"
    /\ LET d == th[t].data
           x == now + (IF d.expires_in = None THEN DefaultExpiresIn ELSE d.expires_in)
           c == [cred EXCEPT !.expires_at = x]
           s == [Answered(th[t], d.out, FALSE, cred, c)
                    EXCEPT !.pc = "return_token", !.data.expires_at = x]
       IN /\ Apply(t, Running(s, c))
          /\ committed' = Stored(s.data)
    /\ UNCHANGED <<instance, initialized, cfg, enabled, now, issued, prev, logger>>

\* `return self.access_token`
ReturnToken(t) ==
    /\ th[t].pc = "return_token"
    /\ Apply(t, get_valid_token_return(th[t], cred, now))
    /\ UNCHANGED <<instance, initialized, cfg, enabled, now, issued, committed, prev, logger>>

\* the credential states the threads start from, a second after the start of the
\* clock: nothing cached, or the first token pair of the backend cached, for one
\* second (it has just expired) or for an hour, with or without refresh token
ThreadsInitCred ==
    {NoCred} \cup
    {store_response(NoCred, out, e, 1, StartTime).cred :
        out \in TimedOutcomes, e \in ExpiresInValues}

\* every thread holds the logger, constructed with all settings given; no call is
\* running
InitThreads ==
    /\ instance = 1
    /\ initialized = TRUE
    /\ cfg = [k \in Settings |-> 1]
    /\ enabled = init_enabled(cfg)
    /\ cred \in ThreadsInitCred
    /\ now = StartTime + 1
    /\ issued = IF cred = NoCred THEN 0 ELSE 1
    /\ committed = cred
    /\ th = [t \in Threads |-> IdleThread]
    /\ prev = [t \in Threads |-> NoPrev]
    /\ logger = [t \in Threads |-> 1]

NextThreads ==
    \/ \E t \in Threads : get_valid_token(t)
    \/ \E t \in Threads : AuthReceived(t)
    \/ \E t \in Threads : RefreshReceived(t)
    \/ \E t \in Threads : StoreAccess(t)
    \/ \E t \in Threads : StoreRefresh(t)
    \/ \E t \in Threads : StoreExpiry(t)
    \/ \E t \in Threads : ReturnToken(t)
    \/ \E t \in Threads : Return(t)

SpecThreads == InitThreads /\ [][NextThreads]_vars

\* a log_success call without optional arguments
log_success_plain(t) == log_success_call(t, NoArgs)

\* several threads logging through one logger: besides the steps of
\* _authenticate and _refresh_token, the insert request of _insert_log and the
\* except clause of log_success, which clears access_token.  The backend answers
\* a request with an error status or with success, a grant with a well-formed body
\* without expires_in.
PlainOutcomes == {"http_error", "ok"}
PlainReceived(t, kind) == ReceivedFrom(t, kind, PlainOutcomes, {None})
PlainInsertResponse(t) == InsertAnswered(t, PlainOutcomes)

NextLoggers ==
    \/ \E t \in Threads : log_success_plain(t)
    \/ \E t \in Threads : get_valid_token(t)
    \/ \E t \in Threads : PlainReceived(t, "auth")
    \/ \E t \in Threads : PlainReceived(t, "refresh")
    \/ \E t \in Threads : StoreAccess(t)
    \/ \E t \in Threads : StoreRefresh(t)
    \/ \E t \in Threads : StoreExpiry(t)
    \/ \E t \in Threads : ReturnToken(t)
    \/ \E t \in Threads : PlainInsertResponse(t)
    \/ \E t \in Threads : Return(t)

SpecLoggers == InitThreads /\ [][NextLoggers]_vars

\* a log_success call with any optional arguments
log_success_any(t) == \E a \in LogArgs : log_success_call(t, a)

\* the assembly of the log record alone: no request is answered
NextRecord ==
    \/ \E t \in Callers : Construct(t)
    \/ \E t \in Callers : log_success_any(t)
    \/ \E t \in Callers : Return(t)

SpecRecord == Init /\ [][NextRecord]_vars

----------------------------------------------------------------------------
(* The SupabaseLogger of src/supabase.py: the same singleton, _insert_log and
   log_success, over the same SupabaseClient; its constructor takes no arguments,
   reads the settings from the process environment and sets enabled to True. *)

\* the process environment the logger of supabase.py is constructed in: every
\* variable set, all but one, or none
VariantEnvironments ==
    {e \in [Settings -> EnvValues] :
        \/ \A k \in Settings : e[k] = None
        \/ \E k \in Settings : \A j \in Settings \ {k} : e[j] # None}

\* __init__ of supabase.py on an object whose _initialized flag is initd, with the
\* environment variables e: SupabaseClient.__init__ gets each setting from the
\* environment, and `self.enabled = True`
supabase_init(initd, e, cur) ==
    IF initd
    THEN cur
    ELSE [cfg |-> [k \in Settings |-> Or(e[k], e[k])], enabled |-> TRUE, cred |-> NoCred]

\* SupabaseLogger() of supabase.py: __new__, then __init__ on the object it returned
ConstructVariant(t) ==
    /\ th[t].pc = "idle"
    /\ \E e \in VariantEnvironments :
          LET o == __new__(instance, initialized)
              pre == [cfg |-> cfg, enabled |-> enabled, cred |-> cred]
              post == supabase_init(o.initialized, e, pre)
          IN /\ instance' = o.instance
             /\ initialized' = TRUE
             /\ cfg' = post.cfg
             /\ enabled' = post.enabled
             /\ cred' = post.cred
             /\ committed' = IF post.cred = cred THEN committed ELSE post.cred
             /\ th' = [th EXCEPT ![t] =
                         [Starting(t, "construct", 0) EXCEPT
                             !.pc = "done", !.status = "ok", !.val = o.instance,
                             !.answered = [kind |-> "construct",
                                           first |-> ~o.initialized,
                                           out |-> "none", raised |-> FALSE,
                                           unchanged |-> (post = pre)]]]
    /\ UNCHANGED <<now, issued, prev, logger>>

\* one caller of the logger of supabase.py
NextVariant ==
    \/ \E t \in Callers : ConstructVariant(t)
    \/ \E t \in Callers : log_success(t)
    \/ \E t \in Callers : AuthResponse(t)
    \/ \E t \in Callers : RefreshResponse(t)
    \/ \E t \in Callers : InsertResponse(t)
    \/ \E t \in Callers : Return(t)
    \/ Tick

SpecVariant == Init /\ [][NextVariant]_vars

----------------------------------------------------------------------------
(* Delivery.  A single caller logs through a configured logger whose backend
   answers every password grant with a well-formed body and accepts the insert
   request that carries the token of such a grant; refresh grants and insert
   requests with any other token end in any way.  Every request is answered or
   times out (timeout=30), so a pending request always ends. *)

\* the credential states a client can hold: nothing, what a response with a fresh
\* token pair left (the whole body stored, or its first fields), and each of these
\* after the except clause of log_success cleared the access token
DeliveryInitCred ==
    LET S == {NoCred} \cup
             {store_response(NoCred, out, e, 1, StartTime).cred :
                 out \in IssuingOutcomes, e \in ExpiresInValues}
    IN S \cup {[c EXCEPT !.access_token = None] : c \in S}

InitDelivery ==
    /\ instance = 1
    /\ initialized = TRUE
    /\ cfg = [k \in Settings |-> 1]
    /\ enabled = init_enabled(cfg)
    /\ cred \in DeliveryInitCred
    /\ now = StartTime + 1
    /\ issued = IF cred = NoCred THEN 0 ELSE 1
    /\ committed = cred
    /\ th = [t \in Threads |-> IdleThread]
    /\ prev = [t \in Threads |-> NoPrev]
    /\ logger = [t \in Threads |-> 1]

\* a log_success call, started while the backend has two token pairs left to issue
log_success_bounded(t) ==
    /\ issued + 2 <= MaxIssued
    /\ log_success(t)

\* the password grant succeeds
AuthDelivery(t) == AuthAnswered(t, TimedOutcomes, ExpiresInValues \cup {None})

\* the backend accepts the insert request that follows a successful password grant
InsertDelivery(t) ==
    InsertAnswered(t, IF th[t].answered.kind = "auth" /\ ~th[t].answered.raised
                      THEN {"ok"}
                      ELSE InsertOutcomes)

NextDelivery ==
    \/ \E t \in Callers : log_success_bounded(t)
    \/ \E t \in Callers : AuthDelivery(t)
    \/ \E t \in Callers : RefreshResponse(t)
    \/ \E t \in Callers : InsertDelivery(t)
    \/ \E t \in Callers : Return(t)
    \/ Tick

\* a pending request ends
FairDelivery ==
    \A t \in Callers :
        /\ WF_vars(AuthDelivery(t))
        /\ WF_vars(RefreshResponse(t))
        /\ WF_vars(InsertDelivery(t))

SpecDelivery == InitDelivery /\ [][NextDelivery]_vars /\ FairDelivery

----------------------------------------------------------------------------
(* Several threads constructing the logger.  Nothing locks __new__ or __init__, so
   a thread can be preempted between the test `cls._instance is None` and the
   assignment to cls._instance, and between the test of _initialized and the body
   of __init__.  cfg, enabled, cred and initialized are the attributes of the
   object that cls._instance refers to; a thread that holds an object that
   cls._instance no longer refers to is followed up to the return of its
   constructor.  The requests of log_success are answered with an error status or
   with success, each in one step. *)

\* SupabaseLogger(...) is called: `if cls._instance is None` is evaluated; with
\* an instance present __new__ returns it
NewCheck(t) ==
    /\ th[t].pc = "idle"
    /\ th' = [th EXCEPT ![t] =
                [Starting(t, "construct", 0) EXCEPT
                    !.pc = IF instance = None THEN "new_create" ELSE "init_check",
                    !.val = instance]]
    /\ UNCHANGED <<instance, initialized, cfg, enabled, cred, now, issued, committed,
                   prev, logger>>

\* `cls._instance = super().__new__(cls)`, `cls._instance._initialized = False`,
\* `return cls._instance`: a new object, without configuration or credentials
NewCreate(t) ==
    /\ th[t].pc = "new_create"
    /\ instance' = instance + 1
    /\ initialized' = FALSE
    /\ cfg' = [k \in Settings |-> None]
    /\ enabled' = FALSE
    /\ cred' = NoCred
    /\ committed' = NoCred
    /\ th' = [th EXCEPT ![t] = [@ EXCEPT !.pc = "init_check", !.val = instance + 1]]
    /\ UNCHANGED <<now, issued, prev, logger>>

\* __init__: `if not getattr(self, '_initialized', False)` is evaluated on the
\* object __new__ returned; an initialised object is returned as it is
InitCheck(t) ==
    /\ th[t].pc = "init_check"
    /\ LET initd == th[t].val = instance /\ initialized
       IN th' = [th EXCEPT ![t] =
                   IF initd
                   THEN [@ EXCEPT !.pc = "done", !.status = "ok",
                                  !.answered = [kind |-> "construct", first |-> FALSE,
                                                out |-> "none", raised |-> FALSE,
                                                unchanged |-> TRUE]]
                   ELSE [@ EXCEPT !.pc = "init_body"]]
    /\ UNCHANGED <<instance, initialized, cfg, enabled, cred, now, issued, committed,
                   prev, logger>>

\* the body of __init__, with the arguments a and the environment variables e:
\* the settings, the credentials reset by SupabaseClient.__init__, enabled, and
\* `self._initialized = True`
InitBody(t) ==
    /\ th[t].pc = "init_body"
    /\ \E a \in ConstructorArgs, e \in Environments :
          LET pre == [cfg |-> cfg, enabled |-> enabled, cred |-> cred]
              post == IF th[t].val = instance THEN __init__(FALSE, a, e, pre) ELSE pre
          IN /\ initialized' = (th[t].val = instance \/ initialized)
             /\ cfg' = post.cfg
             /\ enabled' = post.enabled
             /\ cred' = post.cred
             /\ committed' = IF post.cred = cred THEN committed ELSE post.cred
             /\ th' = [th EXCEPT ![t] =
                         [@ EXCEPT !.pc = "done", !.status = "ok",
                                   !.answered = [kind |-> "construct", first |-> TRUE,
                                                 out |-> "none", raised |-> FALSE,
                                                 unchanged |-> (post = pre)]]]
    /\ UNCHANGED <<instance, now, issued, prev, logger>>

\* thread t holds the object that cls._instance refers to
Held(t) == logger[t] # None /\ logger[t] = instance

HeldLogSuccess(t) == Held(t) /\ log_success_plain(t)
HeldAuthResponse(t) == Held(t) /\ AuthAnswered(t, PlainOutcomes, {None})
HeldInsertResponse(t) == Held(t) /\ InsertAnswered(t, PlainOutcomes)

NextConstruct ==
    \/ \E t \in Threads : NewCheck(t)
    \/ \E t \in Threads : NewCreate(t)
    \/ \E t \in Threads : InitCheck(t)
    \/ \E t \in Threads : InitBody(t)
    \/ \E t \in Threads : HeldLogSuccess(t)
    \/ \E t \in Threads : HeldAuthResponse(t)
    \/ \E t \in Threads : HeldInsertResponse(t)
    \/ \E t \in Threads : Return(t)

SpecConstruct == Init /\ [][NextConstruct]_vars

----------------------------------------------------------------------------
(* Properties *)

\* a request of the retry (the second _insert_log) of a log_success call
InRetry(r) == r.attempt = 2
\* the requests thread t's log_success call has issued in its retry
RetryReqs(t) == SelectSeq(th[t].reqs, InRetry)

\* C1: no error crosses log_success: whatever the outcome of each authentication,
\* refresh and insert request, in the first attempt and in the retry, a log_success
\* call never ends by raising.
C1_LogSuccessNeverRaises ==
    \A t \in Threads : th[t].op = "log_success" => th[t].status # "raised"

\* a log_success call has returned after its retry failed too
C1_Witness ==
    \E t \in Threads :
        /\ th[t].pc = "done" /\ th[t].op = "log_success" /\ th[t].status = "ok"
        /\ th[t].attempt = 2 /\ th[t].answered.raised
        /\ th[t].answered.out = "no_refresh_token"

\* C2: a log_success call ends without retry only when its insert succeeded; when
\* the first _insert_log fails, the retry finds the access token cleared, issues
\* exactly one password authentication, no refresh, and then one insert (none when
\* that authentication fails), and the call returns normally even when the retry
\* fails.
C2_SingleRetry ==
    \A t \in Threads :
        /\ (th[t].op = "log_success" /\ th[t].pc = "done" /\ th[t].attempt = 1)
              => (th[t].answered.kind = "insert" /\ ~th[t].answered.raised)
        /\ (th[t].op = "log_success" /\ th[t].attempt = 2)
              => /\ Len(RetryReqs(t)) \in {1, 2}
                 /\ RetryReqs(t)[1].kind = "auth"
                 /\ Len(RetryReqs(t)) = 2 => RetryReqs(t)[2].kind = "insert"
                 /\ th[t].pc = "auth"
                       => (th[t].last.first /\ ~th[t].last.seen.access
                           /\ cred.access_token = None)
                 /\ th[t].pc \in {"auth", "insert", "done"}
                 /\ th[t].pc = "done"
                       => /\ th[t].status = "ok"
                          /\ Len(RetryReqs(t)) = 2 <=> th[t].answered.kind = "insert"

\* a log_success call whose first insert, sent with the cached token, failed, and
\* whose retry authenticated once, inserted once, failed again and returned
C2_Witness ==
    \E t \in Threads :
        /\ th[t].pc = "done" /\ th[t].op = "log_success" /\ th[t].status = "ok"
        /\ th[t].reqs = <<[kind |-> "insert", attempt |-> 1],
                          [kind |-> "auth", attempt |-> 2],
                          [kind |-> "insert", attempt |-> 2]>>
        /\ th[t].answered.raised

\* C3: on a logger constructed with any of url, api_key, auth_email, auth_password
\* absent, a log_success call issues no request and returns normally.
C3_DisabledLoggerSilent ==
    \A t \in Threads :
        (th[t].op = "log_success" /\ ~Configured(cfg))
            => (th[t].reqs = <<>> /\ th[t].pc = "done" /\ th[t].status = "ok")

\* log_success has returned on a logger that has a url but no api_key
C3_Witness ==
    \E t \in Threads :
        /\ th[t].op = "log_success" /\ th[t].pc = "done"
        /\ cfg.url # None /\ cfg.api_key = None

\* C4: a client constructed with any of url, api_key, auth_email, auth_password
\* absent never issues a request, through none of its operations.
C4_UnconfiguredNeverRequests ==
    ~Configured(cfg) => \A t \in Threads : th[t].reqs = <<>>

\* C5: whenever _get_valid_token returns normally (to a direct caller, to
\* get_headers or to _insert_log), the token it returns is present, is the cached
\* access token and has an expiry time that has not passed; so no insert request
\* carries a token whose expiry time has passed.
C5_ReturnedTokenValid ==
    \A t \in Threads :
        /\ (th[t].pc = "done" /\ th[t].op \in {"get_valid_token", "get_headers"}
            /\ th[t].status = "ok")
              => /\ th[t].val # None
                 /\ th[t].val = cred.access_token
                 /\ cred.expires_at # None
                 /\ now < cred.expires_at
        /\ th[t].pc = "insert"
              => /\ th[t].token # None
                 /\ th[t].token = cred.access_token
                 /\ th[t].last.seen.expiry
                 /\ ~th[t].last.seen.passed

\* C6: when a _get_valid_token call that found no token cached returned one, and
\* the next call on the client is a _get_valid_token call started before that
\* token's expires_at, the two calls issue one request in all, a password
\* authentication by the first, and the second returns the same token.
C6_CachedWithinLifetime ==
    \A t \in Threads :
        (th[t].op = "get_valid_token" /\ th[t].within)
            => /\ prev[t].reqs = <<[kind |-> "auth", attempt |-> 0]>>
               /\ th[t].reqs = <<>>
               /\ th[t].pc = "done"
               /\ th[t].status = "ok"
               /\ th[t].val = prev[t].token

\* the second of two such calls has returned, a second after the clock's start
C6_Witness ==
    \E t \in Threads :
        /\ th[t].op = "get_valid_token" /\ th[t].within /\ th[t].pc = "done"
        /\ th[t].val # None /\ now > StartTime

\* C7 as stated: whenever expires_at has passed and a refresh_token is cached, the
\* first request of a _get_valid_token call goes to the refresh endpoint.
C7_RefreshWhenExpired ==
    \A t \in Threads :
        (th[t].pc \in {"auth", "refresh"} /\ th[t].last.first
         /\ th[t].last.seen.passed /\ th[t].last.seen.refresh)
            => th[t].last.kind = "refresh"

\* C7 as amended: when an access token is cached, expires_at has passed and a
\* refresh_token is cached, the first request of a _get_valid_token call goes to
\* the refresh endpoint, and a password authentication is requested in such a state
\* only after that refresh has failed.
C7_RefreshWhenExpiredAndCached ==
    \A t \in Threads :
        /\ (th[t].pc \in {"auth", "refresh"} /\ th[t].last.first
            /\ th[t].last.seen.access /\ th[t].last.seen.passed
            /\ th[t].last.seen.refresh)
              => th[t].last.kind = "refresh"
        /\ (th[t].pc = "auth" /\ th[t].last.seen.access /\ th[t].last.seen.passed
            /\ th[t].last.seen.refresh)
              => (~th[t].last.first /\ th[t].answered.kind = "refresh"
                  /\ th[t].answered.raised)

\* a _get_valid_token call that found an expired access token and a refresh token
\* is waiting for the refresh endpoint
C7_Witness ==
    \E t \in Threads :
        /\ th[t].pc = "refresh" /\ th[t].last.first
        /\ th[t].last.seen.access /\ th[t].last.seen.passed /\ th[t].last.seen.refresh

\* C8: a failed refresh never ends the _get_valid_token call: a password
\* authentication follows it; when that authentication succeeds, its token pair and
\* expiry are cached and the call returns the new access token without raising
\* (to _insert_log, which sends it).
C8_RefreshFailureFallsBack ==
    \A t \in Threads :
        /\ (th[t].answered.kind = "refresh" /\ th[t].answered.raised)
              => (th[t].pc = "auth" /\ th[t].last.kind = "auth" /\ ~th[t].last.first)
        /\ (th[t].answered.kind = "auth" /\ ~th[t].answered.first
            /\ th[t].answered.out = "ok")
              => /\ ~th[t].answered.raised
                 /\ cred.access_token = issued
                 /\ cred.refresh_token = issued
                 /\ cred.expires_at # None
                 /\ th[t].op = "log_success"
                       => (th[t].pc = "insert" /\ th[t].token = issued
                           /\ ~th[t].last.seen.passed)
                 /\ th[t].op # "log_success"
                       => (th[t].pc = "done" /\ th[t].status = "ok"
                           /\ th[t].val = issued /\ now < cred.expires_at)

\* a _get_valid_token call has returned the token of the password authentication
\* that followed a refresh rejected by the backend
C8_Witness ==
    \E t \in Threads :
        /\ th[t].pc = "done" /\ th[t].op = "get_valid_token" /\ th[t].status = "ok"
        /\ th[t].reqs = <<[kind |-> "refresh", attempt |-> 0],
                          [kind |-> "auth", attempt |-> 0]>>
        /\ th[t].answered.out = "ok"

\* C9: in every reachable state access_token, refresh_token and expires_at are all
\* absent or all as one successful authentication or refresh response set them: no
\* operation changes one of the three without the other two.
C9_CredentialsFromOneResponse == cred = NoCred \/ cred = committed

\* C10: when an authentication or refresh request gets a non-success status, the
\* operation raises and leaves access_token, refresh_token and expires_at as it
\* found them.
C10_HttpErrorLeavesCredentials ==
    \A t \in Threads :
        (th[t].answered.kind \in {"auth", "refresh"} /\ th[t].answered.out = "http_error")
            => (th[t].answered.raised /\ th[t].answered.unchanged)

\* the password authentication that followed a failed refresh was rejected while
\* credentials were cached
C10_Witness ==
    \E t \in Threads :
        /\ th[t].answered.kind = "auth" /\ th[t].answered.out = "http_error"
        /\ th[t].pc = "done" /\ th[t].status = "raised"
        /\ cred.access_token # None /\ cred.refresh_token # None

\* the requests of kind k among thread t's
OfKind(t, k) == SelectSeq(th[t].reqs, LAMBDA r : r.kind = k)

\* C13: a log_success call of a single caller issues at most two insert requests,
\* two password authentications and one refresh; an authentication that fails in
\* the retry ends the call, and so does every failure of the retry: the call has
\* then returned and no request is pending.
C13_BoundedRequests ==
    \A t \in Threads :
        th[t].op = "log_success"
            => /\ Len(OfKind(t, "insert")) <= 2
               /\ Len(OfKind(t, "auth")) <= 2
               /\ Len(OfKind(t, "refresh")) <= 1
               /\ th[t].attempt <= 2
               /\ (th[t].attempt = 2 /\ th[t].pc # "auth" /\ th[t].answered.raised)
                     => /\ th[t].pc = "done"
                        /\ th[t].answered.kind = "auth" => RetryReqs(t) = <<[kind |-> "auth", attempt |-> 2]>>

\* a log_success call has returned after a refresh, two password authentications
\* and two inserts
C13_Witness ==
    \E t \in Threads :
        /\ th[t].pc = "done" /\ th[t].op = "log_success"
        /\ th[t].reqs = <<[kind |-> "refresh", attempt |-> 1],
                          [kind |-> "auth", attempt |-> 1],
                          [kind |-> "insert", attempt |-> 1],
                          [kind |-> "auth", attempt |-> 2],
                          [kind |-> "insert", attempt |-> 2]>>

\* C14: an insert request is only ever sent by a log_success call and carries the
\* record that call assembled from its own arguments; outside log_success a thread
\* holds no record, so a record is not sent again after its call has returned.
C14_RecordNotRetained ==
    \A t \in Threads :
        /\ th[t].pc = "insert"
              => /\ th[t].op = "log_success"
                 /\ th[t].json = th[t].log_entry
                 /\ th[t].log_entry
                       = log_entry(th[t].args, cfg, th[t].log_entry.created_at)
                 /\ th[t].log_entry.created_at \in StartTime..now
        /\ th[t].op # "log_success"
              => (th[t].log_entry = NoRecord /\ th[t].json = NoRecord)

\* the insert of a retry is out, seconds after the record was assembled
C14_Witness ==
    \E t \in Threads :
        /\ th[t].pc = "insert" /\ th[t].attempt = 2
        /\ th[t].json.created_at < now
        /\ th[t].args # NoArgs

\* C15: a log_success call whose first request is a password authentication and
\* whose requests all succeed issues two requests, the authentication and then one
\* insert, and the insert carries the access token of that authentication's
\* response.
C15_AuthenticateThenInsert ==
    \A t \in Threads :
        (th[t].op = "log_success" /\ th[t].attempt = 1 /\ th[t].reqs # <<>>
         /\ th[t].reqs[1].kind = "auth")
            => /\ th[t].pc \in {"insert", "done"}
                     => /\ th[t].reqs = <<[kind |-> "auth", attempt |-> 1],
                                         [kind |-> "insert", attempt |-> 1]>>
                        /\ th[t].token # None
                        /\ th[t].token = issued
                        /\ th[t].token = cred.access_token
               /\ th[t].pc = "insert"
                     => (th[t].answered.kind = "auth" /\ ~th[t].answered.raised)
               /\ th[t].pc = "done"
                     => (th[t].answered.kind = "insert" /\ ~th[t].answered.raised
                         /\ th[t].status = "ok")

\* on a configured logger the first log_success call has returned after the first
\* token ever issued was sent with its insert
C15_Witness ==
    \E t \in Threads :
        /\ th[t].op = "log_success" /\ th[t].pc = "done" /\ th[t].attempt = 1
        /\ Configured(cfg) /\ enabled
        /\ Len(th[t].reqs) = 2 /\ th[t].reqs[1].kind = "auth"
        /\ th[t].token = 1 /\ issued = 1

\* C16: a log_success call on a logger without url or with enabled false returns
\* in its first step, normally, without a request, and leaves access_token,
\* refresh_token and expires_at as they were.
C16_DisabledLeavesCredentials ==
    [][\A t \in Threads :
          (th[t].pc = "idle" /\ th'[t].op = "log_success"
           /\ (cfg.url = None \/ ~enabled))
              => /\ th'[t].pc = "done"
                 /\ th'[t].status = "ok"
                 /\ th'[t].reqs = <<>>
                 /\ cred' = cred]_vars

\* log_success has returned on a disabled logger that holds credentials
C16_Witness ==
    \E t \in Threads :
        /\ th[t].op = "log_success" /\ th[t].pc = "done"
        /\ ~enabled /\ cred.access_token # None /\ cred.expires_at # None

\* C17: every construction returns the one object of the class, the object every
\* earlier construction returned to any caller.
C17_Singleton ==
    \A t \in Threads :
        (th[t].op = "construct" /\ th[t].pc = "done")
            => /\ th[t].val # None
               /\ th[t].val = instance
               /\ \A u \in Threads : logger[u] # None => th[t].val = logger[u]

\* a caller that holds the logger has constructed it again
C17_Witness ==
    \E t \in Threads :
        /\ th[t].op = "construct" /\ th[t].pc = "done"
        /\ logger[t] # None /\ th[t].val = logger[t]

\* C18: a construction after the first, whatever its arguments, leaves the
\* configuration, the enabled flag and the credential state as they were.
C18_InitialisedOnce ==
    \A t \in Threads :
        (th[t].answered.kind = "construct" /\ ~th[t].answered.first)
            => th[t].answered.unchanged

\* the logger has been constructed again while it held credentials
C18_Witness ==
    \E t \in Threads :
        /\ th[t].answered.kind = "construct" /\ ~th[t].answered.first
        /\ th[t].pc = "done"
        /\ cred.access_token # None /\ Configured(cfg)

\* C19: in the record log_success assembles, an attachments field is the empty
\* dict when its argument is None and the argument otherwise, chat_history_length
\* is 0 when its argument is None and the argument otherwise, and none of the three
\* fields is None.
C19_RecordDefaults ==
    \A t \in Threads :
        th[t].op = "log_success"
            => LET a == th[t].args
                   r == th[t].log_entry
               IN /\ r.input_attachments
                        = IF a.input_attachments = Absent THEN EmptyDict
                          ELSE a.input_attachments
                  /\ r.output_attachments
                        = IF a.output_attachments = Absent THEN EmptyDict
                          ELSE a.output_attachments
                  /\ r.chat_history_length
                        = IF a.chat_history_length = Absent THEN Zero
                          ELSE a.chat_history_length
                  /\ Absent \notin {r.input_attachments, r.output_attachments,
                                    r.chat_history_length}

\* a record has been assembled from no input attachments, an empty dict of output
\* attachments and a chat history of length 0
C19_Witness ==
    \E t \in Threads :
        /\ th[t].op = "log_success" /\ th[t].pc = "done"
        /\ th[t].args.input_attachments = Absent
        /\ th[t].args.output_attachments = EmptyDict
        /\ th[t].args.chat_history_length = Zero
        /\ th[t].log_entry.input_attachments = EmptyDict

\* the cached access token is there and has not expired in credential state c at
\* time n
Fresh(c, n) == c.access_token # None /\ (c.expires_at = None \/ n < c.expires_at)

\* C20: a _get_valid_token call (direct, by get_headers, or by the first
\* _insert_log of log_success) returns the cached access token at once, without a
\* request and without a change of the credential state, exactly when an access
\* token is cached and expires_at is unset or now < expires_at; otherwise, and so
\* at now = expires_at, its first step ends in a request.
C20_CachedTokenReturned ==
    [][\A t \in Threads :
          /\ (th[t].pc = "idle" /\ th'[t].op \in {"get_valid_token", "get_headers"})
                => /\ (/\ th'[t].pc = "done" /\ th'[t].status = "ok"
                        /\ th'[t].val = cred.access_token
                        /\ th'[t].reqs = <<>>
                        /\ cred' = cred) <=> Fresh(cred, now)
                   /\ th'[t].pc \in {"auth", "refresh"} <=> ~Fresh(cred, now)
          /\ (th[t].pc = "idle" /\ th'[t].op = "log_success" /\ th'[t].attempt = 1)
                => /\ (/\ th'[t].pc = "insert"
                        /\ th'[t].token = cred.access_token
                        /\ Len(th'[t].reqs) = 1
                        /\ cred' = cred) <=> Fresh(cred, now)
                   /\ th'[t].pc \in {"auth", "refresh"} <=> ~Fresh(cred, now)]_vars

\* a _get_valid_token call made at the very second the cached token expires is
\* waiting for the refresh endpoint
C20_Witness ==
    \E t \in Threads :
        /\ th[t].op = "get_valid_token" /\ th[t].pc = "refresh" /\ th[t].last.first
        /\ cred.access_token # None /\ now = cred.expires_at

\* thread t's _get_valid_token call found a token that had expired and no refresh
\* token, asked for one password authentication, got a well-formed response and
\* has returned
Reauthenticated(t) ==
    /\ th[t].op = "get_valid_token" /\ th[t].pc = "done"
    /\ th[t].reqs = <<[kind |-> "auth", attempt |-> 0]>>
    /\ th[t].last.seen.access /\ th[t].last.seen.passed /\ ~th[t].last.seen.refresh
    /\ th[t].answered.out \in TimedOutcomes

\* C11: when two threads, each finding the shared token expired and no refresh
\* token, have both re-authenticated and returned, each has a token, and
\* access_token, refresh_token and expires_at are all three those of one of the
\* two responses.
C11_ConcurrentReauthentication ==
    (\A t \in Threads : Reauthenticated(t))
        => /\ \A t \in Threads : th[t].status = "ok" /\ th[t].val # None
           /\ \E t \in Threads : cred = Stored(th[t].data)

\* C12: no two threads have each a first request of a _get_valid_token call out
\* for the same expired or absent token.
C12_SerializedAccess ==
    \A t, u \in Threads :
        (/\ t # u
         /\ th[t].pc \in {"auth", "refresh"} /\ th[t].last.first
         /\ th[u].pc \in {"auth", "refresh"} /\ th[u].last.first)
            => th[t].last.seen.token # th[u].last.seen.token

\* the facts f about a credential state call for a password authentication: no
\* access token is cached, or the cached one has expired and no refresh token is
\* cached
NeedsPassword(f) == ~f.access \/ (f.passed /\ ~f.refresh)

\* C21: the first request of a _get_valid_token call is a password authentication
\* exactly when no access token is cached (a cached refresh token and a passed
\* expiry time change nothing) or the cached token has expired and no refresh
\* token is cached; a call that sends no request found neither; and when that
\* authentication succeeds, access_token, refresh_token and expires_at are those of
\* its response and the new access token is what the call returns.
C21_PasswordAuthenticationFirst ==
    \A t \in Callers :
        LET s == th[t]
        IN /\ (s.pc \in {"auth", "refresh"} /\ s.last.first)
                => (s.last.kind = "auth" <=> NeedsPassword(s.last.seen))
           /\ (s.op = "log_success" /\ s.pc = "insert" /\ Len(s.reqs) = 1)
                => ~NeedsPassword(s.last.seen)
           /\ (s.op \in {"get_valid_token", "get_headers"} /\ s.pc = "done"
                  /\ s.reqs = <<>>)
                => ~NeedsPassword(Facts(cred, now))
           /\ (s.answered.kind = "auth" /\ s.answered.first /\ ~s.answered.raised)
                => /\ cred = committed
                   /\ cred.access_token = issued
                   /\ cred.refresh_token \in {issued, None}
                   /\ cred.expires_at # None
                   /\ s.pc \in {"insert", "done"}
                   /\ s.pc = "insert" => s.token = issued
                   /\ s.pc = "done" => s.status = "ok" /\ s.val = issued

\* a _get_valid_token call found an expired access token and no refresh token,
\* authenticated by password first, and returned the token of the response
C21_Witness ==
    \E t \in Callers :
        /\ th[t].op = "get_valid_token" /\ th[t].pc = "done"
        /\ th[t].answered.kind = "auth" /\ th[t].answered.first
        /\ ~th[t].answered.raised
        /\ th[t].last.seen.access /\ th[t].last.seen.passed
        /\ ~th[t].last.seen.refresh
        /\ th[t].val = cred.access_token

\* C22: an authentication or refresh call that fails, whatever the reason (a
\* success-status response without access_token or without refresh_token
\* included), leaves access_token, refresh_token and expires_at as it found them.
C22_FailedCallKeepsCredentials ==
    \A t \in Callers :
        (th[t].answered.kind \in {"auth", "refresh"} /\ th[t].answered.raised)
            => th[t].answered.unchanged

\* C23: in a log_success call every failure of the first attempt starts the retry,
\* whether a token could not be obtained or the insert request failed (the one
\* failure that does not is the refresh failure that _get_valid_token handles by
\* authenticating); the retry starts on such a failure only; and when the first
\* insert request succeeds the call ends having issued exactly one insert request
\* and none in a retry, with the token it sent still cached and the credentials
\* as the request left them.
C23_RetryOnEveryFailure ==
    \A t \in Callers :
        LET s == th[t]
        IN s.op = "log_success"
              => /\ (s.attempt = 1 /\ s.answered.raised)
                      => (s.answered.kind = "refresh" /\ s.pc = "auth")
                 /\ (s.attempt = 2 /\ s.pc = "auth")
                      => (s.answered.raised /\ s.answered.kind \in {"auth", "insert"})
                 /\ (s.attempt = 1 /\ s.pc = "done")
                      => /\ s.answered.kind = "insert" /\ s.answered.out = "ok"
                         /\ Len(OfKind(t, "insert")) = 1
                         /\ RetryReqs(t) = <<>>
                         /\ s.answered.unchanged
                         /\ s.token # None /\ cred.access_token = s.token
                         /\ s.stored = 1

\* the first attempt of a log_success call failed to obtain a token (the password
\* authentication failed) and the retry has started
C23_Witness ==
    \E t \in Callers :
        /\ th[t].op = "log_success" /\ th[t].pc = "auth"
        /\ th[t].reqs = <<[kind |-> "auth", attempt |-> 1],
                          [kind |-> "auth", attempt |-> 2]>>
        /\ th[t].answered.kind = "auth" /\ th[t].answered.out = "transport"

\* C25: the backend stores the record of a log_success call at most once, also
\* when it stored the row of the first insert request and the response to that
\* request was lost or timed out.
C25_StoredAtMostOnce ==
    \A t \in Callers : th[t].stored <= 1

\* C27: once the first attempt of a single caller's log_success call has failed,
\* the access token that was cached at that moment is out of use: the cache holds
\* no access token or one issued later, the insert request of the retry carries a
\* token issued later, and when the call returns the cache holds no access token
\* or the one that the password authentication of the retry obtained.
C27_StaleTokenDropped ==
    \A t \in Callers :
        LET s == th[t]
        IN (s.op = "log_success" /\ s.attempt = 2)
              => /\ cred.access_token = None \/ cred.access_token > s.stale
                 /\ s.pc = "auth" => s.token = None
                 /\ s.pc = "insert" => s.token > s.stale
                 /\ (s.pc = "done" /\ cred.access_token # None)
                      => /\ cred.access_token = issued
                         /\ OfKind(t, "refresh") = SelectSeq(OfKind(t, "refresh"),
                                                             LAMBDA r : r.attempt = 1)
                         /\ RetryReqs(t)[1].kind = "auth"

\* a log_success call whose first insert request, sent with the cached token,
\* failed, and which returned with the token of the retry's authentication cached
C27_Witness ==
    \E t \in Callers :
        /\ th[t].op = "log_success" /\ th[t].pc = "done" /\ th[t].attempt = 2
        /\ th[t].reqs[1] = [kind |-> "insert", attempt |-> 1]
        /\ th[t].stale # None
        /\ cred.access_token # None /\ cred.access_token > th[t].stale

\* C24: with the SupabaseLogger of supabase.py, a log_success call on a logger
\* that has a url but lacks api_key, auth_email or auth_password sends no request
\* and returns normally.
C24_UnconfiguredVariantSilent ==
    \A t \in Callers :
        (/\ th[t].op = "log_success"
         /\ cfg.url # None
         /\ \E k \in {"api_key", "auth_email", "auth_password"} : cfg[k] = None)
            => (th[t].pc = "done" /\ th[t].status = "ok" /\ th[t].reqs = <<>>)

\* C26: with several threads on one logger, a _get_valid_token call that returns
\* normally returns an access token, not None, and every insert request carries
\* an access token as its bearer, also while the except clause of another
\* thread's log_success call sets access_token to None.
C26_TokenPresent ==
    \A t \in Threads :
        /\ th[t].pc = "insert" => th[t].token # None
        /\ (th[t].op = "get_valid_token" /\ th[t].pc = "done" /\ th[t].status = "ok")
              => th[t].val # None

\* C28: with a backend on which password authentication succeeds and which accepts
\* an insert request bearing the token just issued, every log_success call of a
\* single caller on a configured logger, whatever credentials are cached when it
\* starts (none, a token the backend rejects, an expired token with a refresh
\* token the backend rejects), comes to its end, and at its end the backend has
\* stored the record.
C28_EventuallyDelivered ==
    /\ [](\A t \in Callers :
            (th[t].op = "log_success" /\ th[t].pc = "done") => th[t].stored >= 1)
    /\ \A t \in Callers :
          (th[t].op = "log_success" /\ th[t].pc # "done")
              ~> (th[t].op = "log_success" /\ th[t].pc = "done" /\ th[t].stored >= 1)

\* a log_success call found an expired token and a refresh token, the backend
\* rejected the refresh, and the call authenticated, inserted and delivered
C28_Witness ==
    \E t \in Callers :
        /\ th[t].op = "log_success" /\ th[t].pc = "done" /\ th[t].stored = 1
        /\ th[t].reqs = <<[kind |-> "refresh", attempt |-> 1],
                          [kind |-> "auth", attempt |-> 1],
                          [kind |-> "insert", attempt |-> 1]>>

\* the object thread t's constructor call has returned, or None
Obtained(t) ==
    IF th[t].op = "construct" /\ th[t].pc = "done" THEN th[t].val ELSE logger[t]

\* C29: when several threads construct the logger concurrently, all of them get
\* the same object, no two constructor calls both run the body of __init__ on it,
\* and while a thread is inside log_success no thread is inside the
\* initialisation of that object.
C29_ConcurrentConstruction ==
    \A t, u \in Threads :
        /\ (Obtained(t) # None /\ Obtained(u) # None) => Obtained(t) = Obtained(u)
        /\ (/\ t # u
            /\ th[t].op = "construct" /\ th[t].pc = "done"
            /\ th[u].op = "construct" /\ th[u].pc = "done"
            /\ th[t].val = th[u].val)
              => ~(th[t].answered.first /\ th[u].answered.first)
        /\ (th[t].op = "log_success" /\ th[t].pc # "idle")
              => ~(th[u].pc = "init_body" /\ th[u].val = logger[t])

====
